---- MODULE Spec2Model ----
(***************************************************************************)
(* A model of grid.py: the grid world and its parser (World), the episodic *)
(* simulation (Simulation), the drivers of the game loop (HumanPlayer,     *)
(* MachinePlayer), the policies and the tabular Q function (QTable,        *)
(* GreedyQ, QLearner).                                                     *)
(*                                                                         *)
(* Python strings are sequences of one-character strings, Python tuples    *)
(* (x, y) are the tuples <<x, y>>, Python's 0-based indices are kept and   *)
(* translated where a sequence is indexed.                                 *)
(***************************************************************************)
EXTENDS Integers, Sequences, FiniteSets, TLC

VARIABLES
  world,        \* Simulation._world: the World, [init_state, lines]
  state,        \* Simulation.state: the (x, y) of the player
  score,        \* Simulation.score
  before,       \* ghost: [state, score] of the simulation when the last step began
  calls,        \* ghost: the calls the last step made, in order, each [fn, args, ret]
  raised,       \* the exception that ended the program, or "none"
  driver,       \* the driver of the game loop and its collaborators
  ch,           \* HumanPlayer._ch
  table,        \* QTable._table: the dictionary, a function on the keys it holds
  init_reward,  \* QTable's init_reward, the default of the dictionary
  shadow,       \* ghost: the value last given to set(), for every key ever set
  charged,      \* ghost: how often act returned the trap's reward since the last reset
  ticks         \* ghost: the number of steps taken so far

vars == <<world, state, score, before, calls, raised, driver, ch, table,
          init_reward, shadow, charged, ticks>>

(***************************************************************************)
(* Bounds of the model.                                                    *)
(***************************************************************************)
\* the longest input text given to World.parse in the simulation's runs
MaxText == 5
\* the longest input text given to World.parse in the game loop's runs
MaxGameText == 3
\* the number of calls made on a Simulation
MaxSteps == 3
\* the number of iterations of Game._loop
MaxTicks == 3

(***************************************************************************)
(* Python values.                                                          *)
(***************************************************************************)
\* Python's None, which is falsy while every (x, y) is truthy
None == <<>>

\* whether index i is one that seq[i] accepts in Python (negative indices count
\* from the end)
PyInRange(seq, i) == -Len(seq) <= i /\ i < Len(seq)

\* seq[i] in Python, for an index it accepts
PyItem(seq, i) == IF i >= 0 THEN seq[i + 1] ELSE seq[Len(seq) + i + 1]

(***************************************************************************)
(* World                                                                   *)
(***************************************************************************)
VALID_CHARS == {"#", ".", "@", "$", "^", " "}

\* the characters str.split() treats as separators, among those of the model
Whitespace == {" ", "\n"}

\* a result of World.parse: the World, or the exception raised
Returned(w) == [raised |-> "none", reason |-> "", world |-> w]

Raise(exception, why) == [raised |-> exception, reason |-> why, world |-> None]

World(init_state, lines) == [init_state |-> init_state, lines |-> lines]

RECURSIVE SplitFrom(_, _, _, _)
\* s.split() from the i-th character on: cur is the word being read, acc the
\* words read so far
SplitFrom(s, i, cur, acc) ==
  IF i > Len(s)
  THEN IF cur = <<>> THEN acc ELSE Append(acc, cur)
  ELSE IF s[i] \in Whitespace
       THEN SplitFrom(s, i + 1, <<>>, IF cur = <<>> THEN acc ELSE Append(acc, cur))
       ELSE SplitFrom(s, i + 1, Append(cur, s[i]), acc)

\* s.split(): the maximal runs of non-whitespace characters of s
split(s) == SplitFrom(s, 1, <<>>, <<>>)

RECURSIVE scan(_, _, _, _)
\* the two loops of World.parse, about to read column x of line y, with
\* init_state as found so far: the init_state at the end, or the exception
scan(lines, y, x, init_state) ==
  IF y >= Len(lines)
  THEN [raised |-> "none", reason |-> "", init_state |-> init_state]
  ELSE LET line == lines[y + 1] IN
       IF x = 0 /\ y > 0 /\ Len(line) # Len(lines[1])
       THEN [raised |-> "WorldFailure", reason |-> "different length",
             init_state |-> init_state]
       ELSE IF x >= Len(line)
       THEN scan(lines, y + 1, 0, init_state)
       ELSE IF line[x + 1] \notin VALID_CHARS
       THEN [raised |-> "WorldFailure", reason |-> "invalid char",
             init_state |-> init_state]
       ELSE IF line[x + 1] = "@"
       THEN IF init_state # None
            \* '%o' is given the tuple init_state: the message cannot be
            \* formatted, and the WorldFailure is never constructed
            THEN [raised |-> "TypeError", reason |-> "%o format",
                  init_state |-> init_state]
            ELSE scan(lines, y, x + 1, <<x, y>>)
       ELSE scan(lines, y, x + 1, init_state)

\* World.parse(s)
parse(s) ==
  LET lines == split(s) IN
  IF lines = <<>>
  THEN Raise("WorldFailure", "no content")
  ELSE LET r == scan(lines, 0, 0, None) IN
       IF r.raised # "none"
       THEN Raise(r.raised, r.reason)
       ELSE IF r.init_state = None
       THEN Raise("WorldFailure", "no initial state")
       ELSE LET x == r.init_state[1]
                y == r.init_state[2]
                line == lines[y + 1]
            IN Returned(World(r.init_state,
                 [lines EXCEPT ![y + 1] =
                    SubSeq(line, 1, x) \o <<".">> \o SubSeq(line, x + 2, Len(line))]))

\* World.h
h(wd) == Len(wd.lines)

\* World.w
w(wd) == Len(wd.lines[1])

\* World.at(pos): the character, or the IndexError of an index out of range
at(wd, pos) ==
  LET x == pos[1]
      y == pos[2]
  IN IF ~PyInRange(wd.lines, y) THEN "IndexError"
     ELSE IF ~PyInRange(PyItem(wd.lines, y), x) THEN "IndexError"
     ELSE PyItem(PyItem(wd.lines, y), x)

(***************************************************************************)
(* Actions and Simulation                                                  *)
(***************************************************************************)
ACTION_UP == "u"

ACTION_DOWN == "d"

ACTION_LEFT == "l"

ACTION_RIGHT == "r"

\* list(MOVEMENT.keys()): a dict keeps the order in which its keys were inserted
ALL_ACTIONS == <<ACTION_UP, ACTION_DOWN, ACTION_LEFT, ACTION_RIGHT>>

MOVEMENT ==
  [a \in {ACTION_UP, ACTION_DOWN, ACTION_LEFT, ACTION_RIGHT} |->
     CASE a = ACTION_UP -> <<0, -1>>
       [] a = ACTION_DOWN -> <<0, 1>>
       [] a = ACTION_LEFT -> <<-1, 0>>
       [] a = ACTION_RIGHT -> <<1, 0>>]

\* the reward of a step, and the reward of a step onto a trap
STEP_REWARD == -1

TRAP_REWARD == -1000

\* in_terminal_state as it would be if the trap were forgotten
in_terminal_state_goal_only(wd, st) == at(wd, st) \in {"$"}

\* Simulation.in_terminal_state
in_terminal_state(wd, st) == at(wd, st) \in {"^", "$"}

\* _valid_move as it would be without the test of the terrain
valid_move_any_terrain(wd, new_state) ==
  /\ 0 <= new_state[1]
  /\ new_state[1] < w(wd)
  /\ 0 <= new_state[2]
  /\ new_state[2] < h(wd)

\* _valid_move as it would be without the lower bounds: a negative index then
\* counts from the end of the line
valid_move_no_lower_bound(wd, new_state) ==
  /\ new_state[1] < w(wd)
  /\ new_state[2] < h(wd)
  /\ at(wd, new_state) \in {".", "^", "$"}

\* Simulation._valid_move(new_state)
valid_move(wd, new_state) ==
  /\ 0 <= new_state[1]
  /\ new_state[1] < w(wd)
  /\ 0 <= new_state[2]
  /\ new_state[2] < h(wd)
  /\ at(wd, new_state) \in {".", "^", "$"}

\* reset as it would be if it put the player at the origin of the grid
reset_to_origin(wd) == [state |-> <<0, 0>>, score |-> 0]

\* Simulation.reset(): the state and score it leaves
reset(wd) == [state |-> wd.init_state, score |-> 0]

\* act as it would be if the trap were looked for under the player, not at
\* the cell moved to
act_trap_at_old_state(wd, st, sc, action) ==
  IF action \notin DOMAIN MOVEMENT
  THEN [raised |-> "KeyError", state |-> st, score |-> sc, ret |-> None]
  ELSE LET delta == MOVEMENT[action]
           new_state == <<st[1] + delta[1], st[2] + delta[2]>>
           valid == valid_move(wd, new_state)
           reward == IF valid /\ at(wd, st) = "^"
                     THEN TRAP_REWARD ELSE STEP_REWARD
       IN [raised |-> "none",
           state |-> IF valid THEN new_state ELSE st,
           score |-> sc + reward,
           ret |-> reward]

\* Simulation.act(action): the state and score it leaves and the reward it
\* returns, or the KeyError of an action MOVEMENT does not hold
act(wd, st, sc, action) ==
  IF action \notin DOMAIN MOVEMENT
  THEN [raised |-> "KeyError", state |-> st, score |-> sc, ret |-> None]
  ELSE LET delta == MOVEMENT[action]
           new_state == <<st[1] + delta[1], st[2] + delta[2]>>
           valid == valid_move(wd, new_state)
           reward == IF valid /\ at(wd, new_state) = "^"
                     THEN TRAP_REWARD ELSE STEP_REWARD
       IN [raised |-> "none",
           state |-> IF valid THEN new_state ELSE st,
           score |-> sc + reward,
           ret |-> reward]

\* a call as the ghost log records it
Call(fn, args, ret) == [fn |-> fn, args |-> args, ret |-> ret, raised |-> "none"]

\* a call that raised instead of returning
Raising(fn, args, exception) ==
  [fn |-> fn, args |-> args, ret |-> None, raised |-> exception]

\* how many of the calls cs are an act that returned the trap's reward
Charges(cs) ==
  Cardinality({i \in DOMAIN cs :
     cs[i].fn = "act" /\ cs[i].raised = "none" /\ cs[i].ret = TRAP_REWARD})

(***************************************************************************)
(* The inputs of the model: the texts World.parse is given.                *)
(***************************************************************************)
TextChars == {"#", ".", "@", "$", "^", " ", "\n"}

\* every text of at most n characters
Texts(n) == UNION {[1..k -> TextChars] : k \in 0..n}

\* the map of start(), lines 411-418
MAIN_MAP ==
  <<"#", "#", "#", "#", "#", "#", "#", "#", "\n">> \o
  <<"#", ".", ".", "#", ".", ".", ".", "#", "\n">> \o
  <<"#", ".", "@", "#", ".", "$", ".", "#", "\n">> \o
  <<"#", ".", "#", "#", "^", "^", ".", "#", "\n">> \o
  <<"#", ".", ".", ".", ".", ".", ".", "#", "\n">> \o
  <<"#", "#", "#", "#", "#", "#", "#", "#", "\n">>

\* the worlds World.parse returns for the texts of at most n characters and
\* for the map of start()
Worlds(n) ==
  {parse(s).world : s \in {t \in Texts(n) \cup {MAIN_MAP} : parse(t).raised = "none"}}

NoDriver == [kind |-> "none"]

EmptyTable == [k \in {} |-> 0]

(***************************************************************************)
(* Spec: a Simulation of a parsed world, called directly: any sequence of  *)
(* reset() and act(a).                                                     *)
(***************************************************************************)
\* Simulation(World.parse(s)): the constructor calls reset()
Init ==
  /\ world \in Worlds(MaxText)
  /\ state = reset(world).state
  /\ score = reset(world).score
  /\ before = [state |-> None, score |-> 0]
  /\ calls = <<Call("reset", <<>>, None)>>
  /\ raised = "none"
  /\ driver = NoDriver
  /\ ch = 0
  /\ table = EmptyTable
  /\ init_reward = 0
  /\ shadow = EmptyTable
  /\ charged = 0
  /\ ticks = 0

\* sim.reset()
Reset ==
  /\ ticks < MaxSteps
  /\ state' = reset(world).state
  /\ score' = reset(world).score
  /\ before' = [state |-> state, score |-> score]
  /\ calls' = <<Call("reset", <<>>, None)>>
  /\ charged' = 0
  /\ ticks' = ticks + 1
  /\ UNCHANGED <<world, raised, driver, ch, table, init_reward, shadow>>

\* sim.act(action)
Act(action) ==
  /\ ticks < MaxSteps
  /\ LET r == act(world, state, score, action) IN
       /\ state' = r.state
       /\ score' = r.score
       /\ calls' = <<Call("act", <<action>>, r.ret)>>
       /\ charged' = charged + Charges(<<Call("act", <<action>>, r.ret)>>)
       /\ raised' = r.raised
  /\ before' = [state |-> state, score |-> score]
  /\ ticks' = ticks + 1
  /\ UNCHANGED <<world, driver, ch, table, init_reward, shadow>>

Next ==
  \/ Reset
  \/ \E action \in DOMAIN MOVEMENT : Act(action)

Spec == Init /\ [][Next]_vars

(***************************************************************************)
(* Numbers. The values of the table are Python numbers; the model keeps    *)
(* them exact, as the fractions (e * 10^20 + n) / d with d > 0, so that the *)
(* start value -1e20 of QTable.best and the values around it are numbers   *)
(* like the others. Every n of the model is far smaller than 10^20, so two *)
(* numbers compare by their e first.                                       *)
(***************************************************************************)
Abs(i) == IF i < 0 THEN -i ELSE i

RECURSIVE Gcd(_, _)
Gcd(a, b) == IF b = 0 THEN a ELSE Gcd(b, a % b)

\* the number (e * 10^20 + n) / d, in lowest terms
Number(e, n, d) ==
  LET g == Gcd(Gcd(Abs(e), Abs(n)), d)
  IN [e |-> e \div g, n |-> n \div g, d |-> d \div g]

\* the integer i
Num(i) == Number(0, i, 1)

\* the fraction n / d
Ratio(n, d) == Number(0, n, d)

\* a < b
Less(a, b) ==
  LET g == Gcd(a.d, b.d)
      x == b.d \div g
      y == a.d \div g
  IN \/ a.e * x < b.e * y
     \/ a.e * x = b.e * y /\ a.n * x < b.n * y

\* a + b
Plus(a, b) ==
  LET g == Gcd(a.d, b.d)
      x == b.d \div g
      y == a.d \div g
  IN Number(a.e * x + b.e * y, a.n * x + b.n * y, y * b.d)

\* a - b
Minus(a, b) ==
  LET g == Gcd(a.d, b.d)
      x == b.d \div g
      y == a.d \div g
  IN Number(a.e * x - b.e * y, a.n * x - b.n * y, y * b.d)

\* a * b, for numbers of which at most one has a part in 10^20
Times(a, b) == Number(a.e * b.n + b.e * a.n, a.n * b.n, a.d * b.d)

(***************************************************************************)
(* QTable                                                                  *)
(***************************************************************************)
\* -1e20, the value QTable.best starts from
BEST_VALUE_START == Number(-1, 0, 1)

\* None where an action is expected: the best_action QTable.best starts from
NoAction == "None"

\* get as it would be if a key that is missing were stored with 0, not with
\* the default that is returned
get_stores_zero(tbl, dflt, st, action) ==
  LET key == <<st, action>> IN
  IF key \in DOMAIN tbl
  THEN [table |-> tbl, ret |-> tbl[key]]
  ELSE [table |-> [k \in DOMAIN tbl \cup {key} |-> IF k = key THEN Num(0) ELSE tbl[k]],
        ret |-> dflt]

\* QTable.get(state, action): the value returned, and the table after it: a
\* defaultdict stores the default under a key it is asked for and does not hold
get(tbl, dflt, st, action) ==
  LET key == <<st, action>> IN
  IF key \in DOMAIN tbl
  THEN [table |-> tbl, ret |-> tbl[key]]
  ELSE [table |-> [k \in DOMAIN tbl \cup {key} |-> IF k = key THEN dflt ELSE tbl[k]],
        ret |-> dflt]

\* QTable.set(state, action, value): the table after it
set(tbl, st, action, value) ==
  LET key == <<st, action>> IN
  [k \in DOMAIN tbl \cup {key} |-> IF k = key THEN value ELSE tbl[k]]

RECURSIVE best_loop(_, _, _, _, _, _)
\* the loop of QTable.best, about to read the i-th of ALL_ACTIONS
best_loop(tbl, dflt, st, i, best_action, best_value) ==
  IF i > Len(ALL_ACTIONS)
  THEN [table |-> tbl, ret |-> <<best_action, best_value>>]
  ELSE LET action == ALL_ACTIONS[i]
           g == get(tbl, dflt, st, action)
       IN IF Less(best_value, g.ret)
          THEN best_loop(g.table, dflt, st, i + 1, action, g.ret)
          ELSE best_loop(g.table, dflt, st, i + 1, best_action, best_value)

\* QTable.best(state): the (action, value) returned, and the table after it
best(tbl, dflt, st) == best_loop(tbl, dflt, st, 1, NoAction, BEST_VALUE_START)

(***************************************************************************)
(* Policies and learners. What random.random() and random.choice() return  *)
(* is an input of the step: rnd = [sample, choice].                        *)
(***************************************************************************)
RandomPolicy == [kind |-> "RandomPolicy"]

GreedyQ == [kind |-> "GreedyQ"]

EpsilonPolicy(policy_a, policy_b, epsilon) ==
  [kind |-> "EpsilonPolicy", policy_a |-> policy_a, policy_b |-> policy_b,
   epsilon |-> epsilon]

StubLearner == [kind |-> "StubLearner"]

QLearner(learning_rate, discount_rate) ==
  [kind |-> "QLearner", alpha |-> learning_rate, gamma |-> discount_rate]

RECURSIVE pick_action_at_most(_, _, _, _, _)
\* pick_action as it would be if EpsilonPolicy compared with <=
pick_action_at_most(policy, tbl, dflt, st, rnd) ==
  CASE policy.kind = "RandomPolicy" -> [table |-> tbl, ret |-> rnd.choice]
    [] policy.kind = "GreedyQ" ->
         [table |-> best(tbl, dflt, st).table, ret |-> best(tbl, dflt, st).ret[1]]
    [] policy.kind = "EpsilonPolicy" ->
         IF ~Less(policy.epsilon, rnd.sample)
         THEN pick_action_at_most(policy.policy_b, tbl, dflt, st, rnd)
         ELSE pick_action_at_most(policy.policy_a, tbl, dflt, st, rnd)

RECURSIVE pick_action(_, _, _, _, _)
\* policy.pick_action(state): the action returned, and the table after it
pick_action(policy, tbl, dflt, st, rnd) ==
  CASE policy.kind = "RandomPolicy" -> [table |-> tbl, ret |-> rnd.choice]
    [] policy.kind = "GreedyQ" ->
         [table |-> best(tbl, dflt, st).table, ret |-> best(tbl, dflt, st).ret[1]]
    [] policy.kind = "EpsilonPolicy" ->
         IF Less(rnd.sample, policy.epsilon)
         THEN pick_action(policy.policy_b, tbl, dflt, st, rnd)
         ELSE pick_action(policy.policy_a, tbl, dflt, st, rnd)

\* observe as it would be if the update forgot to subtract prev
observe_without_prev(learner, tbl, dflt, old_state, action, reward, new_state) ==
  IF learner.kind = "StubLearner"
  THEN tbl
  ELSE LET p == get(tbl, dflt, old_state, action)
           prev == p.ret
           b == best(p.table, dflt, new_state)
           target == Plus(Num(reward), Times(learner.gamma, b.ret[2]))
       IN set(b.table, old_state, action,
              Plus(prev, Times(learner.alpha, target)))

\* observe as it would be if the value were stored under new_state
observe_sets_new_state(learner, tbl, dflt, old_state, action, reward, new_state) ==
  IF learner.kind = "StubLearner"
  THEN tbl
  ELSE LET p == get(tbl, dflt, old_state, action)
           prev == p.ret
           b == best(p.table, dflt, new_state)
           target == Plus(Num(reward), Times(learner.gamma, b.ret[2]))
       IN set(b.table, new_state, action,
              Plus(prev, Times(learner.alpha, Minus(target, prev))))

\* learner.observe(old_state, action, reward, new_state): the table after it
observe(learner, tbl, dflt, old_state, action, reward, new_state) ==
  IF learner.kind = "StubLearner"
  THEN tbl
  ELSE LET p == get(tbl, dflt, old_state, action)
           prev == p.ret
           b == best(p.table, dflt, new_state)
           target == Plus(Num(reward), Times(learner.gamma, b.ret[2]))
       IN set(b.table, old_state, action,
              Plus(prev, Times(learner.alpha, Minus(target, prev))))

(***************************************************************************)
(* The drivers of the game loop                                            *)
(***************************************************************************)
KEY_Q == 113

KEY_ESC == 27

KEY_SPACE == 32

KEY_UP == 259

KEY_DOWN == 258

KEY_LEFT == 106

KEY_RIGHT == 107

KEY_ACTION_MAP ==
  [k \in {KEY_UP, KEY_DOWN, KEY_LEFT, KEY_RIGHT} |->
     CASE k = KEY_UP -> ACTION_UP
       [] k = KEY_DOWN -> ACTION_DOWN
       [] k = KEY_LEFT -> ACTION_LEFT
       [] k = KEY_RIGHT -> ACTION_RIGHT]

QUIT_KEYS == {KEY_Q, KEY_ESC}

HumanPlayer == [kind |-> "HumanPlayer"]

MachinePlayer(policy, learner) ==
  [kind |-> "MachinePlayer", policy |-> policy, learner |-> learner]

\* what a call of interact leaves: the simulation, the table, the calls made
Outcome(st, sc, tbl, cs, exception) ==
  [state |-> st, score |-> sc, table |-> tbl, calls |-> cs, raised |-> exception]

\* HumanPlayer.should_quit
human_should_quit(c) == c \in QUIT_KEYS

\* should_quit as it would be if the machine stopped at the end of an episode
machine_quits_when_terminal == in_terminal_state(world, state)

\* MachinePlayer.should_quit
machine_should_quit == FALSE

\* driver.should_quit, as Game._loop reads it
should_quit(drv, c) ==
  IF drv.kind = "HumanPlayer" THEN human_should_quit(c) ELSE machine_should_quit

\* interact as it would be without the tests of the terminal state
human_interact_any_state(wd, st, sc, tbl, key) ==
  IF key \in DOMAIN KEY_ACTION_MAP
  THEN LET a == act(wd, st, sc, KEY_ACTION_MAP[key])
       IN Outcome(a.state, a.score, tbl,
                  <<Call("act", <<KEY_ACTION_MAP[key]>>, a.ret)>>, a.raised)
  ELSE IF key = KEY_SPACE
  THEN Outcome(reset(wd).state, reset(wd).score, tbl,
               <<Call("reset", <<>>, None)>>, "none")
  ELSE Outcome(st, sc, tbl, <<>>, "none")

\* HumanPlayer.interact(sim, window), after window.getch() returned key
human_interact(wd, st, sc, tbl, key) ==
  IF key \in DOMAIN KEY_ACTION_MAP /\ ~in_terminal_state(wd, st)
  THEN LET a == act(wd, st, sc, KEY_ACTION_MAP[key])
       IN Outcome(a.state, a.score, tbl,
                  <<Call("act", <<KEY_ACTION_MAP[key]>>, a.ret)>>, a.raised)
  ELSE IF key = KEY_SPACE /\ in_terminal_state(wd, st)
  THEN Outcome(reset(wd).state, reset(wd).score, tbl,
               <<Call("reset", <<>>, None)>>, "none")
  ELSE Outcome(st, sc, tbl, <<>>, "none")

\* interact as it would be without the test of the terminal state
machine_interact_always_acts(drv, wd, st, sc, tbl, dflt, rnd) ==
  LET old_state == st
      p == pick_action(drv.policy, tbl, dflt, st, rnd)
      a == act(wd, st, sc, p.ret)
  IN IF a.raised # "none"
     THEN Outcome(a.state, a.score, p.table,
                  <<Call("pick_action", <<st>>, p.ret),
                    Raising("act", <<p.ret>>, a.raised)>>, a.raised)
     ELSE Outcome(a.state, a.score,
                  observe(drv.learner, p.table, dflt, old_state, p.ret, a.ret, a.state),
                  <<Call("pick_action", <<st>>, p.ret),
                    Call("act", <<p.ret>>, a.ret),
                    Call("observe", <<old_state, p.ret, a.ret, a.state>>, None)>>,
                  "none")

\* interact as it would be if old_state were read after the act
machine_interact_late_old_state(drv, wd, st, sc, tbl, dflt, rnd) ==
  IF in_terminal_state(wd, st)
  THEN Outcome(reset(wd).state, reset(wd).score, tbl,
               <<Call("reset", <<>>, None)>>, "none")
  ELSE LET p == pick_action(drv.policy, tbl, dflt, st, rnd)
           a == act(wd, st, sc, p.ret)
           old_state == a.state
       IN IF a.raised # "none"
          THEN Outcome(a.state, a.score, p.table,
                       <<Call("pick_action", <<st>>, p.ret),
                         Raising("act", <<p.ret>>, a.raised)>>, a.raised)
          ELSE Outcome(a.state, a.score,
                       observe(drv.learner, p.table, dflt, old_state, p.ret, a.ret, a.state),
                       <<Call("pick_action", <<st>>, p.ret),
                         Call("act", <<p.ret>>, a.ret),
                         Call("observe", <<old_state, p.ret, a.ret, a.state>>, None)>>,
                       "none")

\* MachinePlayer.interact(sim, window)
machine_interact(drv, wd, st, sc, tbl, dflt, rnd) ==
  IF in_terminal_state(wd, st)
  THEN Outcome(reset(wd).state, reset(wd).score, tbl,
               <<Call("reset", <<>>, None)>>, "none")
  ELSE LET old_state == st
           p == pick_action(drv.policy, tbl, dflt, st, rnd)
           a == act(wd, st, sc, p.ret)
       IN IF a.raised # "none"
          THEN Outcome(a.state, a.score, p.table,
                       <<Call("pick_action", <<st>>, p.ret),
                         Raising("act", <<p.ret>>, a.raised)>>, a.raised)
          ELSE Outcome(a.state, a.score,
                       observe(drv.learner, p.table, dflt, old_state, p.ret, a.ret, a.state),
                       <<Call("pick_action", <<st>>, p.ret),
                         Call("act", <<p.ret>>, a.ret),
                         Call("observe", <<old_state, p.ret, a.ret, a.state>>, None)>>,
                       "none")

(***************************************************************************)
(* SpecGame: Game._loop with the drivers the program constructs.           *)
(***************************************************************************)
\* main() with --interactive
InteractiveGame ==
  [driver |-> HumanPlayer, table |-> EmptyTable, init_reward |-> Num(0)]

\* main() with --q: QTable(), QLearner(q, 0.05, 0.1) and
\* EpsilonPolicy(GreedyQ(q), RandomPolicy(), 0.01)
QGame ==
  [driver |-> MachinePlayer(EpsilonPolicy(GreedyQ, RandomPolicy, Ratio(1, 100)),
                            QLearner(Ratio(5, 100), Ratio(1, 10))),
   table |-> EmptyTable, init_reward |-> Num(0)]

\* TestMachinePlayer.test_interact: QTable(-1) with q.set((0, 0), ACTION_RIGHT, 1),
\* GreedyQ(q) and StubLearner()
TestGame ==
  [driver |-> MachinePlayer(GreedyQ, StubLearner),
   table |-> set(EmptyTable, <<0, 0>>, ACTION_RIGHT, Num(1)),
   init_reward |-> Num(-1)]

Games == {InteractiveGame, QGame, TestGame}

\* the keys window.getch() returns: the keys the program knows, no key (-1)
\* and a key it does not know ('x')
Keys == {KEY_Q, KEY_ESC, KEY_SPACE, KEY_UP, KEY_DOWN, KEY_LEFT, KEY_RIGHT, -1, 120}

\* what random.random() returns, in [0, 1), on either side of epsilon
Samples == {Ratio(0, 1), Ratio(1, 2)}

Randoms == [sample : Samples, choice : DOMAIN MOVEMENT]

\* Game(world, driver): the constructor makes the Simulation
InitGame ==
  /\ world \in Worlds(MaxGameText)
  /\ state = reset(world).state
  /\ score = reset(world).score
  /\ before = [state |-> None, score |-> 0]
  /\ calls = <<Call("reset", <<>>, None)>>
  /\ raised = "none"
  /\ \E g \in Games :
       /\ driver = g.driver
       /\ table = g.table
       /\ shadow = g.table
       /\ init_reward = g.init_reward
  /\ ch = 0
  /\ charged = 0
  /\ ticks = 0

\* what an iteration of the loop leaves
Interacted(r) ==
  /\ state' = r.state
  /\ score' = r.score
  /\ table' = r.table
  /\ calls' = r.calls
  /\ raised' = r.raised
  /\ before' = [state |-> state, score |-> score]
  /\ charged' = IF \E i \in DOMAIN r.calls : r.calls[i].fn = "reset"
                THEN 0 ELSE charged + Charges(r.calls)
  /\ ticks' = ticks + 1
  /\ UNCHANGED <<world, driver, init_reward, shadow>>

\* Game._loop: while not self._driver.should_quit; an exception ends the loop
LoopRuns ==
  /\ raised = "none"
  /\ ticks < MaxTicks
  /\ ~should_quit(driver, ch)

\* an iteration of Game._loop with a HumanPlayer, window.getch() returning key
HumanTick(key) ==
  /\ LoopRuns
  /\ driver.kind = "HumanPlayer"
  /\ ch' = key
  /\ Interacted(human_interact(world, state, score, table, key))

\* an iteration of Game._loop with a MachinePlayer
MachineTick(rnd) ==
  /\ LoopRuns
  /\ driver.kind = "MachinePlayer"
  /\ ch' = ch
  /\ Interacted(machine_interact(driver, world, state, score, table, init_reward, rnd))

Loop ==
  \/ \E key \in Keys : HumanTick(key)
  \/ \E rnd \in Randoms : MachineTick(rnd)

SpecGame == InitGame /\ [][Loop]_vars

(***************************************************************************)
(* SpecQTable: a QTable and a GreedyQ over it, called directly: any        *)
(* sequence of get, set, best and pick_action.                             *)
(***************************************************************************)
\* the number of calls made on the table
MaxCalls == 2

\* the default values a QTable is constructed with: ordinary ones, the start
\* value -1e20 of best, and values just above and below it
Defaults ==
  {Num(0), Num(-1), Num(1), Number(-1, 1, 1), BEST_VALUE_START, Number(-2, 0, 1)}

\* the values set() is given
Values == {Num(-1), Num(1), BEST_VALUE_START, Number(-2, 0, 1)}

\* the states the table is asked about
TableStates == {<<0, 0>>, <<1, 0>>}

\* QTable(init_reward); the world is the one of the tests, '@.'
InitQTable ==
  /\ world = parse(<<"@", ".">>).world
  /\ state = reset(world).state
  /\ score = reset(world).score
  /\ before = [state |-> None, score |-> 0]
  /\ calls = <<>>
  /\ raised = "none"
  /\ driver = NoDriver
  /\ ch = 0
  /\ table = EmptyTable
  /\ init_reward \in Defaults
  /\ shadow = EmptyTable
  /\ charged = 0
  /\ ticks = 0

\* what a call on the table leaves
TableCalled(tbl, sh, call) ==
  /\ ticks < MaxCalls
  /\ table' = tbl
  /\ shadow' = sh
  /\ calls' = <<call>>
  /\ ticks' = ticks + 1
  /\ UNCHANGED <<world, state, score, before, raised, driver, ch, init_reward, charged>>

\* q.get(st, action)
QGet(st, action) ==
  LET g == get(table, init_reward, st, action)
  IN TableCalled(g.table, shadow, Call("get", <<st, action>>, g.ret))

\* q.set(st, action, value)
QSet(st, action, value) ==
  TableCalled(set(table, st, action, value), set(shadow, st, action, value),
              Call("set", <<st, action, value>>, None))

\* q.best(st)
QBest(st) ==
  LET b == best(table, init_reward, st)
  IN TableCalled(b.table, shadow, Call("best", <<st>>, b.ret))

\* GreedyQ(q).pick_action(st)
QPick(st) ==
  LET p == pick_action(GreedyQ, table, init_reward, st, [sample |-> Num(0), choice |-> NoAction])
  IN TableCalled(p.table, shadow, Call("pick_action", <<st>>, p.ret))

NextQTable ==
  \/ \E st \in TableStates, action \in DOMAIN MOVEMENT : QGet(st, action)
  \/ \E st \in TableStates, action \in DOMAIN MOVEMENT, value \in Values :
       QSet(st, action, value)
  \/ \E st \in TableStates : QBest(st)
  \/ \E st \in TableStates : QPick(st)

SpecQTable == InitQTable /\ [][NextQTable]_vars

(***************************************************************************)
(* SpecLearner: a QLearner over a QTable, called directly: any sequence of *)
(* q.set and learner.observe.                                              *)
(***************************************************************************)
\* the number of calls made on the learner and its table
MaxObserved == 2

\* QLearner(q, 0.05, 0.1) of main(), and a learner with alpha = 1/2, gamma = 1
Learners == {QLearner(Ratio(5, 100), Ratio(1, 10)), QLearner(Ratio(1, 2), Num(1))}

\* the default values of the learner's table
LearnerDefaults == {Num(0), Num(-1), BEST_VALUE_START}

\* the values the table is given by set() before the learner observes
LearnerValues == {Num(-1), Num(1)}

\* the rewards observe is given: those Simulation.act returns
Rewards == {STEP_REWARD, TRAP_REWARD}

\* QLearner(QTable(init_reward), alpha, gamma)
InitLearner ==
  /\ world = parse(<<"@", ".">>).world
  /\ state = reset(world).state
  /\ score = reset(world).score
  /\ before = [state |-> None, score |-> 0, table |-> EmptyTable]
  /\ calls = <<>>
  /\ raised = "none"
  /\ driver \in Learners
  /\ ch = 0
  /\ table = EmptyTable
  /\ init_reward \in LearnerDefaults
  /\ shadow = EmptyTable
  /\ charged = 0
  /\ ticks = 0

\* what a call on the learner or its table leaves; the ghost before keeps the
\* table as it was when the call began
LearnerCalled(tbl, sh, call) ==
  /\ ticks < MaxObserved
  /\ table' = tbl
  /\ shadow' = sh
  /\ calls' = <<call>>
  /\ before' = [state |-> None, score |-> 0, table |-> table]
  /\ ticks' = ticks + 1
  /\ UNCHANGED <<world, state, score, raised, driver, ch, init_reward, charged>>

\* q.set(st, action, value)
LSet(st, action, value) ==
  LearnerCalled(set(table, st, action, value), set(shadow, st, action, value),
                Call("set", <<st, action, value>>, None))

\* learner.observe(old_state, action, reward, new_state)
LObserve(old_state, action, reward, new_state) ==
  LET tbl == observe(driver, table, init_reward, old_state, action, reward, new_state)
  IN LearnerCalled(tbl, set(shadow, old_state, action, tbl[<<old_state, action>>]),
                   Call("observe", <<old_state, action, reward, new_state>>, None))

NextLearner ==
  \/ \E st \in TableStates, action \in DOMAIN MOVEMENT, value \in LearnerValues :
       LSet(st, action, value)
  \/ \E old_state \in TableStates, action \in DOMAIN MOVEMENT, reward \in Rewards,
        new_state \in TableStates :
       LObserve(old_state, action, reward, new_state)

SpecLearner == InitLearner /\ [][NextLearner]_vars

(***************************************************************************)
(* SpecPolicy: an EpsilonPolicy over a GreedyQ and a RandomPolicy, called  *)
(* directly: any sequence of q.set and policy.pick_action, with what       *)
(* random.random() and random.choice() return as inputs.                   *)
(***************************************************************************)
\* the number of calls made on the policy and its table
MaxPicked == 2

\* EpsilonPolicy(policy_a, policy_b, epsilon), as main() builds it and the
\* other way round, with the epsilon of main(), the two ends and a middle
Policies ==
  {EpsilonPolicy(pair[1], pair[2], epsilon) :
     pair \in {<<GreedyQ, RandomPolicy>>, <<RandomPolicy, GreedyQ>>},
     epsilon \in {Ratio(0, 1), Ratio(1, 100), Ratio(1, 2), Ratio(1, 1)}}

\* what random.random() returns: a number of [0, 1)
PolicySamples == {Ratio(0, 1), Ratio(1, 100), Ratio(1, 2), Ratio(99, 100)}

InitPolicy ==
  /\ world = parse(<<"@", ".">>).world
  /\ state = reset(world).state
  /\ score = reset(world).score
  /\ before = [state |-> None, score |-> 0, table |-> EmptyTable]
  /\ calls = <<>>
  /\ raised = "none"
  /\ driver \in Policies
  /\ ch = 0
  /\ table = EmptyTable
  /\ init_reward \in {Num(0), Num(-1)}
  /\ shadow = EmptyTable
  /\ charged = 0
  /\ ticks = 0

\* what a call on the policy or its table leaves
PolicyCalled(tbl, sh, call) ==
  /\ ticks < MaxPicked
  /\ table' = tbl
  /\ shadow' = sh
  /\ calls' = <<call>>
  /\ before' = [state |-> None, score |-> 0, table |-> table]
  /\ ticks' = ticks + 1
  /\ UNCHANGED <<world, state, score, raised, driver, ch, init_reward, charged>>

\* q.set(st, action, value)
PSet(st, action, value) ==
  PolicyCalled(set(table, st, action, value), set(shadow, st, action, value),
               Call("set", <<st, action, value>>, None))

\* policy.pick_action(st), random.random() returning sample and
\* random.choice(ALL_ACTIONS) returning choice
PPick(st, sample, choice) ==
  LET p == pick_action(driver, table, init_reward, st,
                       [sample |-> sample, choice |-> choice])
  IN PolicyCalled(p.table, shadow, Call("pick_action", <<st, sample, choice>>, p.ret))

NextPolicy ==
  \/ \E st \in TableStates, action \in DOMAIN MOVEMENT, value \in LearnerValues :
       PSet(st, action, value)
  \/ \E st \in TableStates, sample \in PolicySamples, choice \in DOMAIN MOVEMENT :
       PPick(st, sample, choice)

SpecPolicy == InitPolicy /\ [][NextPolicy]_vars

(***************************************************************************)
(* SpecParse: World.parse applied to a text.                               *)
(***************************************************************************)
\* the longest text given to World.parse on its own
MaxParseText == 4

\* the characters of the texts: those of VALID_CHARS, the newline, and one
\* character that is not in VALID_CHARS
ParseChars == TextChars \cup {"x"}

ParseTexts == UNION {[1..k -> ParseChars] : k \in 0..MaxParseText}

\* a text s is at hand; no World has been made of it yet
InitParse ==
  /\ world = None
  /\ state = None
  /\ score = 0
  /\ before \in {[state |-> None, score |-> 0, text |-> s] : s \in ParseTexts}
  /\ calls = <<>>
  /\ raised = "none"
  /\ driver = NoDriver
  /\ ch = 0
  /\ table = EmptyTable
  /\ init_reward = 0
  /\ shadow = EmptyTable
  /\ charged = 0
  /\ ticks = 0

\* World.parse(s): the World it returns, or the exception it raises
Parse ==
  /\ ticks = 0
  /\ LET r == parse(before.text) IN
       /\ world' = r.world
       /\ raised' = r.raised
       /\ calls' = <<[fn |-> "parse", args |-> <<before.text>>, ret |-> r.world,
                      raised |-> r.raised]>>
  /\ ticks' = ticks + 1
  /\ UNCHANGED <<state, score, before, driver, ch, table, init_reward, shadow, charged>>

NextParse == Parse

SpecParse == InitParse /\ [][NextParse]_vars

(***************************************************************************)
(* What the claims speak of, read off the world's lines directly.          *)
(***************************************************************************)
\* whether (x, y) = pos is a cell of the grid
InGrid(pos) ==
  /\ 0 <= pos[1] /\ pos[1] < Len(world.lines[1])
  /\ 0 <= pos[2] /\ pos[2] < Len(world.lines)

\* the character of the map at a cell of the grid
Cell(pos) == world.lines[pos[2] + 1][pos[1] + 1]

\* Floor, Trap or Goal: the terrain the player may stand on
OpenTerrain == {".", "^", "$"}

\* Trap or Goal
TerminalTerrain == {"^", "$"}

\* the unit vector of each action
UnitVector(action) ==
  CASE action = "u" -> <<0, -1>>
    [] action = "d" -> <<0, 1>>
    [] action = "l" -> <<-1, 0>>
    [] action = "r" -> <<1, 0>>

\* the last step was a direct call of act
ActCalled == Len(calls) = 1 /\ calls[1].fn = "act"

\* the last step was a direct call of reset, or the construction
ResetCalled == Len(calls) = 1 /\ calls[1].fn = "reset"

\* the cell the last act was asked to move to
Candidate ==
  <<before.state[1] + UnitVector(calls[1].args[1])[1],
    before.state[2] + UnitVector(calls[1].args[1])[2]>>

\* whether that cell is in the grid and open
CandidateValid == InGrid(Candidate) /\ Cell(Candidate) \in OpenTerrain

(***************************************************************************)
(* Claims about the Simulation (Spec)                                      *)
(***************************************************************************)
\* C1: after construction and after any sequence of reset() and act(a), the
\* position is within the grid (0 <= x < w, 0 <= y < h) and on a cell that is
\* Floor, Trap or Goal, never Wall or blank.
C1_PositionOnOpenCell == InGrid(state) /\ Cell(state) \in OpenTerrain

\* C1's case: the player has left the start cell and a later act was absorbed
C1_Witness ==
  /\ ActCalled
  /\ state = before.state
  /\ state # world.init_state

\* C2: every act changes score by exactly the reward it returns; for a valid
\* move that reward is -1, unless the cell moved to is a Trap, and then it is
\* -1000.
C2_ScoreChangesByReward ==
  ActCalled =>
    /\ score = before.score + calls[1].ret
    /\ CandidateValid =>
         calls[1].ret = IF Cell(Candidate) = "^" THEN -1000 ELSE -1

\* C2's case: an act has moved the player onto a Trap
C2_Witness ==
  /\ ActCalled
  /\ CandidateValid
  /\ state = Candidate
  /\ Cell(state) = "^"
  /\ score = before.score - 1000

\* C3: act moves the player to the candidate cell if and only if the
\* candidate is in the grid and Floor, Trap or Goal; otherwise the move is
\* absorbed: the position is unchanged, nothing is raised, the reward is -1
\* and the score decreases by 1.
C3_MoveIffValid ==
  ActCalled =>
    /\ CandidateValid => state = Candidate
    /\ ~CandidateValid =>
         /\ state = before.state
         /\ raised = "none"
         /\ calls[1].ret = -1
         /\ score = before.score - 1

\* C3's case: an act toward a cell outside the grid has been absorbed
C3_Witness ==
  /\ ActCalled
  /\ ~InGrid(Candidate)
  /\ state = before.state
  /\ score = before.score - 1

\* C4: in_terminal_state is true if and only if the terrain under the player
\* is Trap or Goal, and right after reset() and after construction it is
\* false.
C4_TerminalIffTrapOrGoal ==
  /\ in_terminal_state(world, state) <=> Cell(state) \in TerminalTerrain
  /\ ResetCalled => ~in_terminal_state(world, state)

\* C4's case: reset() has been called on a simulation in a terminal state
C4_Witness ==
  /\ ResetCalled
  /\ before.state # None
  /\ Cell(before.state) \in TerminalTerrain
  /\ ~in_terminal_state(world, state)

\* C5: act called in a terminal state leaves the position unchanged and the
\* simulation terminal, for every action.
C5_ActInTerminalStateIsNoOp ==
  (ActCalled /\ Cell(before.state) \in TerminalTerrain) =>
    /\ state = before.state
    /\ in_terminal_state(world, state)

(***************************************************************************)
(* Claims about the game loop (SpecGame)                                   *)
(***************************************************************************)
\* the last step was an iteration of the loop that began in a terminal state
TickFromTerminal ==
  /\ ticks > 0
  /\ Cell(before.state) \in TerminalTerrain

\* the last step was an iteration of the loop that began in a state that is
\* not terminal
TickFromActive ==
  /\ ticks > 0
  /\ Cell(before.state) \notin TerminalTerrain

\* the calls on the simulation among the calls of the last step
SimulationCalls == SelectSeq(calls, LAMBDA c : c.fn \in {"act", "reset"})

\* C6: in a run of interact ticks of either driver, act is never called while
\* the simulation is in a terminal state: the only call a tick makes on a
\* terminal simulation is reset().
C6_NoActInTerminalState ==
  TickFromTerminal =>
    \A i \in DOMAIN SimulationCalls : SimulationCalls[i].fn = "reset"

\* C6's case: the machine has moved onto a Trap or Goal and the next tick
\* has been taken
C6_Witness ==
  /\ driver.kind = "MachinePlayer"
  /\ TickFromTerminal
  /\ SimulationCalls = <<Call("reset", <<>>, None)>>

\* C7: a MachinePlayer tick on a simulation that is not terminal asks the
\* policy once, for the state before the act, calls act once with the action
\* the policy gave, and calls observe once with (state before, that action,
\* the reward act returned, state after); a tick on a terminal simulation
\* calls reset() and none of the three.
C7_TickProtocol ==
  (driver.kind = "MachinePlayer" /\ ticks > 0) =>
    IF Cell(before.state) \in TerminalTerrain
    THEN /\ calls = <<Call("reset", <<>>, None)>>
         /\ state = world.init_state
         /\ score = 0
    ELSE /\ Len(calls) = 3
         /\ calls[1].fn = "pick_action"
         /\ calls[1].args = <<before.state>>
         /\ calls[2].fn = "act"
         /\ calls[2].args = <<calls[1].ret>>
         /\ calls[2].ret = score - before.score
         /\ calls[3].fn = "observe"
         /\ calls[3].args = <<before.state, calls[1].ret, calls[2].ret, state>>

\* C7's case: a tick has moved the machine to another cell and the learner
\* has observed the transition
C7_Witness ==
  /\ driver.kind = "MachinePlayer"
  /\ TickFromActive
  /\ state # before.state
  /\ Len(calls) = 3
  /\ calls[3].fn = "observe"

\* C8: in a run of MachinePlayer ticks the trap's reward -1000 is returned at
\* most once between two resets, by the tick that moves the player onto a
\* Trap, and by no tick after it until the reset.
C8_TrapChargedOncePerEntry ==
  driver.kind = "MachinePlayer" =>
    /\ charged <= 1
    /\ charged = 1 <=> Cell(state) = "^"
    /\ \A i \in DOMAIN calls :
         (calls[i].fn = "act" /\ calls[i].raised = "none") =>
           (calls[i].ret = -1000 <=> (state # before.state /\ Cell(state) = "^"))

\* C8's case: a tick has moved the machine onto a Trap and charged -1000
C8_Witness ==
  /\ driver.kind = "MachinePlayer"
  /\ charged = 1
  /\ Cell(state) = "^"
  /\ score - before.score = -1000

(***************************************************************************)
(* Claims about the QTable (SpecQTable)                                    *)
(***************************************************************************)
\* the last step was a call of best
BestCalled == Len(calls) = 1 /\ calls[1].fn = "best"

\* the last step was a call of GreedyQ.pick_action
PickCalled == Len(calls) = 1 /\ calls[1].fn = "pick_action"

\* what get(st, action) returns in this state
Value(st, action) ==
  IF <<st, action>> \in DOMAIN table THEN table[<<st, action>>] ELSE init_reward

\* action is the first, in the order Up, Down, Left, Right, of the actions
\* whose value for st is the greatest
FirstMaximum(st, action) ==
  LET order == <<"u", "d", "l", "r">> IN
  \E i \in 1..4 :
    /\ order[i] = action
    /\ \A j \in 1..4 : ~Less(Value(st, action), Value(st, order[j]))
    /\ \A j \in 1..(i - 1) : Less(Value(st, order[j]), Value(st, action))

\* C9: for every configured default and every state, best on a table in
\* which nothing has been set returns the first action, Up, and the default.
C9_BestOfEmptyTable ==
  (BestCalled /\ DOMAIN shadow = {}) => calls[1].ret = <<"u", init_reward>>

\* C10: for any table contents and any state, GreedyQ.pick_action returns
\* one of the four actions, the first in the order Up, Down, Left, Right of
\* those whose value is the greatest, and best returns that action with that
\* value.
C10_GreedyPicksFirstMaximum ==
  /\ PickCalled => FirstMaximum(calls[1].args[1], calls[1].ret)
  /\ BestCalled =>
       /\ FirstMaximum(calls[1].args[1], calls[1].ret[1])
       /\ calls[1].ret[2] = Value(calls[1].args[1], calls[1].ret[1])

\* the last step was a call of get
GetCalled == Len(calls) = 1 /\ calls[1].fn = "get"

\* the value last given to set(st, action, .), or the default if there was none
LastSet(st, action) ==
  IF <<st, action>> \in DOMAIN shadow THEN shadow[<<st, action>>] ELSE init_reward

\* C11: reads do not observably change the table: after any sequence of get,
\* set and best, get(s, a) returns the value of the most recent set(s, a, v),
\* or the default if there was none, and get and best return what they would
\* return had no get or best been called before.
C11_ReadsDoNotMutate ==
  /\ \A st \in TableStates, action \in {"u", "d", "l", "r"} :
       get(table, init_reward, st, action).ret = LastSet(st, action)
  /\ \A st \in TableStates :
       best(table, init_reward, st).ret = best(shadow, init_reward, st).ret
  /\ GetCalled => calls[1].ret = LastSet(calls[1].args[1], calls[1].args[2])

\* C11's case: after a set, get has been called for a key that was never set,
\* and the dictionary now holds that key
C11_Witness ==
  /\ GetCalled
  /\ DOMAIN shadow # {}
  /\ <<calls[1].args[1], calls[1].args[2]>> \notin DOMAIN shadow
  /\ <<calls[1].args[1], calls[1].args[2]>> \in DOMAIN table
  /\ calls[1].ret = init_reward

(***************************************************************************)
(* Claims about the QLearner (SpecLearner)                                 *)
(***************************************************************************)
\* the last step was a call of observe
ObserveCalled == Len(calls) = 1 /\ calls[1].fn = "observe"

\* what get(st, action) returns on the table tbl
ValueIn(tbl, st, action) ==
  IF <<st, action>> \in DOMAIN tbl THEN tbl[<<st, action>>] ELSE init_reward

\* C12: observe(old_state, action, reward, new_state) sets the value of
\* (old_state, action) to prev + alpha * (reward + gamma * best(new_state).value
\* - prev), with prev and best(new_state).value as they were before the write,
\* also when old_state = new_state; with alpha = 1/2, gamma = 1, default 0 and
\* reward -1 on an empty table the new value is -1/2.
C12_ObserveUpdate ==
  ObserveCalled =>
    LET old_state == calls[1].args[1]
        action == calls[1].args[2]
        reward == calls[1].args[3]
        new_state == calls[1].args[4]
        prev == ValueIn(before.table, old_state, action)
        best_value == best(before.table, init_reward, new_state).ret[2]
    IN /\ ValueIn(table, old_state, action) =
            Plus(prev, Times(driver.alpha,
                   Minus(Plus(Num(reward), Times(driver.gamma, best_value)), prev)))
       /\ ( /\ driver.alpha = Ratio(1, 2)
            /\ driver.gamma = Num(1)
            /\ init_reward = Num(0)
            /\ before.table = EmptyTable
            /\ reward = -1 )
          => ValueIn(table, old_state, action) = Ratio(-1, 2)

\* C12's case: observe has been called with old_state = new_state for an
\* action whose value had been set to the greatest of that state
C12_Witness ==
  /\ ObserveCalled
  /\ calls[1].args[1] = calls[1].args[4]
  /\ <<calls[1].args[1], calls[1].args[2]>> \in DOMAIN before.table
  /\ before.table[<<calls[1].args[1], calls[1].args[2]>>] = Num(1)
  /\ init_reward = Num(0)

\* C18: observe(old_state, action, ...) is a point update: get(s, a) for every
\* (s, a) other than (old_state, action), and best(s) for every s other than
\* old_state, return after it what they returned before it.
C18_ObserveIsPointUpdate ==
  ObserveCalled =>
    LET old_state == calls[1].args[1]
        action == calls[1].args[2]
    IN /\ \A st \in TableStates, a \in {"u", "d", "l", "r"} :
            <<st, a>> # <<old_state, action>> =>
              ValueIn(table, st, a) = ValueIn(before.table, st, a)
       /\ \A st \in TableStates :
            st # old_state =>
              best(table, init_reward, st).ret = best(before.table, init_reward, st).ret

\* C18's case: observe has been called with new_state other than old_state on
\* a table in which another key had been set
C18_Witness ==
  /\ ObserveCalled
  /\ calls[1].args[1] # calls[1].args[4]
  /\ \E key \in DOMAIN shadow :
       /\ key # <<calls[1].args[1], calls[1].args[2]>>
       /\ key[1] = calls[1].args[4]

(***************************************************************************)
(* More claims about the Simulation (Spec)                                 *)
(***************************************************************************)

\* C13: reset() is total and idempotent: called in any reachable state, active
\* or terminal, it leaves the player at the world's start position with score
\* 0, so a reset called right after a reset changes nothing.
C13_ResetIdempotent ==
  ResetCalled =>
    /\ raised = "none"
    /\ state = world.init_state
    /\ score = 0
    /\ InGrid(state)
    /\ (before.state = world.init_state /\ before.score = 0) =>
         (state = before.state /\ score = before.score)

\* C13's case: reset has been called twice in a row (only a reset leaves the
\* score at 0), in a world whose start is not the origin
C13_Witness ==
  /\ ResetCalled
  /\ ticks >= 2
  /\ before.state = world.init_state
  /\ before.score = 0
  /\ world.init_state # <<0, 0>>

(***************************************************************************)
(* Claims about the policies (SpecPolicy)                                  *)
(***************************************************************************)

\* policy_b is the one asked: the action returned and the table left are
\* those of policy_b.pick_action(st)
DelegatedTo(policy) ==
  LET p == pick_action(policy, before.table, init_reward, calls[1].args[1],
                       [sample |-> calls[1].args[2], choice |-> calls[1].args[3]])
  IN calls[1].ret = p.ret /\ table = p.table

\* C14: EpsilonPolicy.pick_action delegates to policy_b iff the sample of
\* [0, 1) is less than epsilon, else to policy_a; with epsilon = 0 it is
\* policy_a for every sample, with epsilon = 1 policy_b for every sample.
C14_EpsilonDelegates ==
  PickCalled =>
    LET sample == calls[1].args[2]
        epsilon == driver.epsilon
    IN /\ sample.n * epsilon.d < epsilon.n * sample.d => DelegatedTo(driver.policy_b)
       /\ sample.n * epsilon.d >= epsilon.n * sample.d => DelegatedTo(driver.policy_a)
       /\ epsilon = Num(0) => DelegatedTo(driver.policy_a)
       /\ epsilon = Num(1) => DelegatedTo(driver.policy_b)

\* C14's case: the sample equals epsilon, and the two policies would return
\* different actions
C14_Witness ==
  /\ PickCalled
  /\ calls[1].args[2] = driver.epsilon
  /\ driver.epsilon = Ratio(1, 100)
  /\ DelegatedTo(driver.policy_a)
  /\ ~DelegatedTo(driver.policy_b)

(***************************************************************************)
(* Claims about World.parse (SpecParse)                                    *)
(***************************************************************************)
\* the last step was a call of World.parse
ParseCalled == Len(calls) = 1 /\ calls[1].fn = "parse"

RECURSIVE LinesFrom(_, _, _, _)
\* the lines of the text s from the i-th character on, a newline ending a
\* line: cur is the line being read, acc the lines read so far; an empty line
\* is no line of the map
LinesFrom(s, i, cur, acc) ==
  IF i > Len(s)
  THEN IF cur = <<>> THEN acc ELSE Append(acc, cur)
  ELSE IF s[i] = "\n"
       THEN LinesFrom(s, i + 1, <<>>, IF cur = <<>> THEN acc ELSE Append(acc, cur))
       ELSE LinesFrom(s, i + 1, Append(cur, s[i]), acc)

\* the lines of the text s
TextLines(s) == LinesFrom(s, 1, <<>>, <<>>)

\* the number of Start symbols in the text s
Starts(s) == Cardinality({i \in 1..Len(s) : s[i] = "@"})

\* the inputs parsing has to fail for
Empty(s) == TextLines(s) = <<>>

Ragged(s) == \E y \in 1..Len(TextLines(s)) : Len(TextLines(s)[y]) # Len(TextLines(s)[1])

Unrecognized(s) == \E i \in 1..Len(s) : s[i] \notin VALID_CHARS \cup {"\n"}

\* C15: World.parse raises WorldFailure, no other exception, and returns no
\* World, for the empty text, a text with a line whose length differs from
\* the first line's, a text with an unrecognized symbol, a text without a
\* Start symbol, and a text with more than one.
C15_ParseFailures ==
  ParseCalled =>
    LET s == calls[1].args[1]
    IN (Empty(s) \/ Ragged(s) \/ Unrecognized(s) \/ Starts(s) = 0 \/ Starts(s) > 1) =>
         (calls[1].raised = "WorldFailure" /\ calls[1].ret = None)

\* the text s is h >= 1 lines of equal length w >= 1, separated by newlines
WellFormed(s, width, height) ==
  /\ width >= 1
  /\ height >= 1
  /\ Len(s) = height * width + (height - 1)
  /\ \A i \in 1..Len(s) :
       IF i % (width + 1) = 0 THEN s[i] = "\n" ELSE s[i] \in VALID_CHARS
  /\ Starts(s) = 1

\* the character of the text s at column x of line y
CharAt(s, width, x, y) == s[y * (width + 1) + x + 1]

\* C16: for a text of h >= 1 lines of equal length w >= 1 of characters of
\* VALID_CHARS with exactly one '@', World.parse returns a world of size
\* (w, h) whose every row has w columns, whose init_state is the (x, y) of the
\* '@', whose cell at init_state is '.', and whose every other cell is the
\* character of the text at that coordinate.
C16_ParseWellFormed ==
  ParseCalled =>
    LET s == calls[1].args[1]
    IN \A width \in 1..Len(s), height \in 1..Len(s) :
         WellFormed(s, width, height) =>
           /\ calls[1].raised = "none"
           /\ w(world) = width
           /\ h(world) = height
           /\ \A y \in 0..(height - 1) : Len(world.lines[y + 1]) = width
           /\ \A x \in 0..(width - 1), y \in 0..(height - 1) :
                IF CharAt(s, width, x, y) = "@"
                THEN world.init_state = <<x, y>> /\ at(world, <<x, y>>) = "."
                ELSE at(world, <<x, y>>) = CharAt(s, width, x, y)

(***************************************************************************)
(* More claims about the game loop (SpecGame)                              *)
(***************************************************************************)

\* C17: with a MachinePlayer the loop has no end of its own: should_quit is
\* false in every reachable state and no tick raises, so the loop's test lets
\* the next iteration run; and a tick that begins in a terminal state resets
\* the simulation to the start position with score 0, where a new episode
\* begins.
C17_MachineLoopNeverQuits ==
  driver.kind = "MachinePlayer" =>
    /\ ~should_quit(driver, ch)
    /\ raised = "none"
    /\ ticks < MaxTicks => LoopRuns
    /\ TickFromTerminal =>
         /\ calls = <<Call("reset", <<>>, None)>>
         /\ state = world.init_state
         /\ score = 0
         /\ ~in_terminal_state(world, state)

\* C17's case: the machine has ended an episode on a Trap or Goal, the next
\* tick has reset the simulation, and the loop is still to run
C17_Witness ==
  /\ driver.kind = "MachinePlayer"
  /\ ticks >= 2
  /\ ticks < MaxTicks
  /\ TickFromTerminal
  /\ before.score < 0
  /\ state = world.init_state
  /\ LoopRuns

\* the cells of the world
Positions == {<<x, y>> : x \in 0..(w(world) - 1), y \in 0..(h(world) - 1)}

\* C19: in a run of MachinePlayer ticks with a QLearner over a QTable that
\* starts empty, no entry of a terminal cell (Trap or Goal) is ever set: for
\* every terminal cell t and action a, get(t, a) is the default, and so is the
\* value of best(t), which is what the learning target of a transition into t
\* takes.
C19_TerminalEntriesKeepDefault ==
  (driver.kind = "MachinePlayer" /\ driver.learner.kind = "QLearner"
     /\ shadow = EmptyTable) =>
    \A t \in Positions :
      Cell(t) \in TerminalTerrain =>
        /\ \A a \in {"u", "d", "l", "r"} : ValueIn(table, t, a) = init_reward
        /\ best(table, init_reward, t).ret[2] = init_reward

\* C19's case: the machine has just moved onto a Trap or Goal, observe has
\* written the value of the cell it left, and the read of best(new_state) has
\* left entries for the terminal cell
C19_Witness ==
  /\ driver.kind = "MachinePlayer"
  /\ driver.learner.kind = "QLearner"
  /\ shadow = EmptyTable
  /\ Len(calls) = 3
  /\ calls[3].fn = "observe"
  /\ Cell(state) \in TerminalTerrain
  /\ <<state, "u">> \in DOMAIN table
  /\ table[<<before.state, calls[2].args[1]>>] # init_reward

\* the action an action key stands for
KeyAction(key) ==
  CASE key = KEY_UP -> "u"
    [] key = KEY_DOWN -> "d"
    [] key = KEY_LEFT -> "l"
    [] key = KEY_RIGHT -> "r"

\* C20: HumanPlayer.interact changes the simulation in two cases only: an
\* action key on a simulation that is not terminal (one act with the action
\* of the key) and SPACE on a terminal one (one reset); with any other key
\* and state it makes no call, and position and score stay; should_quit is
\* true exactly when the last key read is q or ESC.
C20_HumanInteract ==
  driver.kind = "HumanPlayer" =>
    /\ should_quit(driver, ch) <=> ch \in {KEY_Q, KEY_ESC}
    /\ ticks > 0 =>
         IF ch \in {KEY_UP, KEY_DOWN, KEY_LEFT, KEY_RIGHT} /\ TickFromActive
         THEN /\ Len(calls) = 1
              /\ calls[1].fn = "act"
              /\ calls[1].args = <<KeyAction(ch)>>
              /\ state = act(world, before.state, before.score, KeyAction(ch)).state
              /\ score = act(world, before.state, before.score, KeyAction(ch)).score
         ELSE IF ch = KEY_SPACE /\ TickFromTerminal
         THEN /\ calls = <<Call("reset", <<>>, None)>>
              /\ state = world.init_state
              /\ score = 0
         ELSE /\ calls = <<>>
              /\ state = before.state
              /\ score = before.score

\* C20's case: an action key has been pressed on a terminal simulation, and
\* nothing was called
C20_Witness ==
  /\ driver.kind = "HumanPlayer"
  /\ ticks >= 2
  /\ ch \in {KEY_UP, KEY_DOWN, KEY_LEFT, KEY_RIGHT}
  /\ TickFromTerminal
  /\ calls = <<>>
  /\ score < 0

====
